---- MODULE Spec2Model ----
(***************************************************************************)
(* State-machine model of src/wp_backup.py: the WordPress backup script    *)
(* (local purge, site copy, database dump, zip, FTP upload with remote     *)
(* retention).  File names are sequences of one-character strings so that  *)
(* startswith / endswith / split / strftime / strptime are modelled by     *)
(* what they compute.  A datetime is a number of clock ticks since the     *)
(* proleptic Gregorian ordinal 0; TicksPerDay ticks make one calendar day. *)
(***************************************************************************)
EXTENDS Integers, Sequences, FiniteSets, TLC

----------------------------------------------------------------------------
(* Bounds of the model                                                     *)

\* resolution of the clock: tick 0 of a day is 00:00:00, later ticks are
\* later times of the same day
TicksPerDay == 2
\* how many ticks the clock may advance after the initial instant
MaxTicks == 3
\* how many invocations of the script are explored
MaxRuns == 2
\* how many names the remote directory holds initially, at most
MaxRemote == 1

----------------------------------------------------------------------------
(* Calendar: datetime / timedelta arithmetic                               *)

IsLeap(y) == (y % 4 = 0) /\ ((y % 100 # 0) \/ (y % 400 = 0))

DaysInMonth(y, m) ==
    IF m = 2 THEN (IF IsLeap(y) THEN 29 ELSE 28)
    ELSE IF m \in {4, 6, 9, 11} THEN 30 ELSE 31

RECURSIVE DaysBeforeMonth(_, _)
DaysBeforeMonth(y, m) ==
    IF m <= 1 THEN 0 ELSE DaysBeforeMonth(y, m - 1) + DaysInMonth(y, m - 1)

DaysBeforeYear(y) ==
    (y - 1) * 365 + ((y - 1) \div 4) - ((y - 1) \div 100) + ((y - 1) \div 400)

\* datetime(y, m, d).toordinal()
ToOrdinal(y, m, d) == DaysBeforeYear(y) + DaysBeforeMonth(y, m) + d

\* date.fromordinal(n) as <<year, month, day>>
FromOrdinal(n) ==
    LET y   == CHOOSE yy \in ((n \div 366) + 1) .. ((n \div 365) + 1) :
                   DaysBeforeYear(yy) < n /\ n <= DaysBeforeYear(yy + 1)
        doy == n - DaysBeforeYear(y)
        m   == CHOOSE mm \in 1..12 :
                   DaysBeforeMonth(y, mm) < doy
                   /\ doy <= DaysBeforeMonth(y, mm) + DaysInMonth(y, mm)
    IN  <<y, m, doy - DaysBeforeMonth(y, m)>>

\* the calendar day (ordinal) of a datetime
DateOf(dt) == dt \div TicksPerDay

\* datetime(y, m, d): midnight of that day
Midnight(y, m, d) == ToOrdinal(y, m, d) * TicksPerDay

\* dt - timedelta(days=n): the same time of day, n days earlier
MinusDays(dt, n) == dt - n * TicksPerDay

----------------------------------------------------------------------------
(* Strings                                                                 *)

DigitChars == <<"0", "1", "2", "3", "4", "5", "6", "7", "8", "9">>

IsDigit(c) == \E i \in 1..10 : DigitChars[i] = c
DigitVal(c) == (CHOOSE i \in 1..10 : DigitChars[i] = c) - 1
Digit(i) == DigitChars[i + 1]

\* str.startswith / str.endswith
StartsWith(s, p) == Len(s) >= Len(p) /\ SubSeq(s, 1, Len(p)) = p
EndsWith(s, p) ==
    Len(s) >= Len(p) /\ SubSeq(s, Len(s) - Len(p) + 1, Len(s)) = p

\* index of the first occurrence of character sep in s at or after i, else 0
RECURSIVE FindChar(_, _, _)
FindChar(s, sep, i) ==
    IF i > Len(s) THEN 0
    ELSE IF s[i] = sep THEN i ELSE FindChar(s, sep, i + 1)

\* str.split(sep) for a one-character separator: the list of segments
RECURSIVE Split(_, _)
Split(s, sep) ==
    LET k == FindChar(s, sep, 1)
    IN  IF k = 0 THEN <<s>>
        ELSE <<SubSeq(s, 1, k - 1)>> \o Split(SubSeq(s, k + 1, Len(s)), sep)

\* dt.strftime('%Y%m%d')
Strftime(dt) ==
    LET ymd == FromOrdinal(DateOf(dt))
        y == ymd[1]
        m == ymd[2]
        d == ymd[3]
    IN  << Digit((y \div 1000) % 10), Digit((y \div 100) % 10),
           Digit((y \div 10) % 10), Digit(y % 10),
           Digit(m \div 10), Digit(m % 10),
           Digit(d \div 10), Digit(d % 10) >>

\* result of a parse: a value, or the ValueError the call raises
Parsed(dt) == [ok |-> TRUE, dt |-> dt]
ValueError == [ok |-> FALSE, dt |-> 0]

\* regex group %m = 1[0-2]|0[1-9]|[1-9] tried at position i with n characters
MonthAlt(s, i, n) ==
    IF n = 2
    THEN /\ i + 1 <= Len(s)
         /\ \/ s[i] = "1" /\ s[i + 1] \in {"0", "1", "2"}
            \/ s[i] = "0" /\ IsDigit(s[i + 1]) /\ s[i + 1] # "0"
    ELSE /\ i <= Len(s)
         /\ IsDigit(s[i]) /\ s[i] # "0"

\* regex group %d = 3[0-1]|[1-2]\d|0[1-9]|[1-9]| [1-9] at position i:
\* the number of characters the first matching alternative takes, 0 if none
DayLen(s, i) ==
    IF i > Len(s) THEN 0
    ELSE LET two == i + 1 <= Len(s)
         IN  IF two /\ s[i] = "3" /\ s[i + 1] \in {"0", "1"} THEN 2
             ELSE IF two /\ s[i] \in {"1", "2"} /\ IsDigit(s[i + 1]) THEN 2
             ELSE IF two /\ s[i] = "0" /\ IsDigit(s[i + 1]) /\ s[i + 1] # "0" THEN 2
             ELSE IF IsDigit(s[i]) /\ s[i] # "0" THEN 1
             ELSE IF two /\ s[i] = " " /\ IsDigit(s[i + 1]) /\ s[i + 1] # "0" THEN 2
             ELSE 0

\* number made of the digits of s (a leading space of ' [1-9]' counts as 0)
RECURSIVE ToInt(_)
ToInt(s) ==
    IF s = <<>> THEN 0
    ELSE 10 * ToInt(SubSeq(s, 1, Len(s) - 1))
         + (IF IsDigit(s[Len(s)]) THEN DigitVal(s[Len(s)]) ELSE 0)

\* datetime.strptime(s, '%Y%m%d'): the regex \d\d\d\d, %m, %d is matched at
\* the start of s with backtracking over the alternatives of %m; the match
\* must consume all of s and name a date of the calendar; the result is the
\* datetime at midnight of that date, or ValueError
Strptime(s) ==
    IF ~(Len(s) >= 4 /\ \A i \in 1..4 : IsDigit(s[i])) THEN ValueError
    ELSE
      LET mlen == IF MonthAlt(s, 5, 2) /\ DayLen(s, 7) > 0 THEN 2
                  ELSE IF MonthAlt(s, 5, 1) /\ DayLen(s, 6) > 0 THEN 1
                  ELSE 0
          dlen == DayLen(s, 5 + mlen)
          y == ToInt(SubSeq(s, 1, 4))
          m == ToInt(SubSeq(s, 5, 4 + mlen))
          d == ToInt(SubSeq(s, 5 + mlen, 4 + mlen + dlen))
      IN  IF mlen = 0 THEN ValueError
          ELSE IF 4 + mlen + dlen # Len(s) THEN ValueError
          ELSE IF y < 1 \/ d > DaysInMonth(y, m) THEN ValueError
          ELSE Parsed(Midnight(y, m, d))

----------------------------------------------------------------------------
(* Configuration and names                                                 *)

\* 'wordpress_backup_' and '.zip'
Prefix ==
    << "w", "o", "r", "d", "p", "r", "e", "s", "s", "_",
       "b", "a", "c", "k", "u", "p", "_" >>
Suffix == << ".", "z", "i", "p" >>

\* f'wordpress_backup_{date_str}.zip'
ZipName(date_str) == Prefix \o date_str \o Suffix

\* values of ftp_config['keep_days'] the runs are explored with
KeepDaysValues == {-1, 0, 1, 2}

\* the instant the first invocation may start at: 2024-03-01 00:00:00 (the
\* days before it are 29 and 28 February of a leap year)
StartTime == Midnight(2024, 3, 1)

\* the staging directories under backup_directory
SiteDataDir == <<"site_data">>
DatabaseDir == <<"database">>
DumpFile == <<"database_backup.sql">>

\* contents of wp_directory the runs are explored with: relative path -> data
TreeA == (<<"index.php">> :> "v1") @@ (<<"a", "b.txt">> :> "v1")
TreeB == (<<"index.php">> :> "v2")
WpTrees == {TreeA, TreeB}

\* names found in the remote directory before the first run: artifacts of
\* the days around the start, and names that are not artifacts
OldArtifacts == { ZipName(Strftime(MinusDays(StartTime, n))) : n \in 0..3 }
OddNames ==
    { Prefix \o <<"2", "0", "x", "x", "1", "3">> \o Suffix,
      Prefix \o <<"2", "0", "2", "4", "1", "1">> \o Suffix,
      Prefix \o <<"2", "0", "2", "4", "0", "2", "3", "0">> \o Suffix,
      Prefix \o <<"2", "0", "2", "4", "0", "1", "0", "1", "_", "o", "l", "d">> \o Suffix,
      Prefix \o <<"2", "0", "2", "4", "0", "1", "0", "1", ".", "s", "q", "l">> \o Suffix,
      Prefix \o <<"2", "0", "2", "4", "0", "1", "0", "1">> \o <<".", "t", "a", "r">> }
RemoteNames == OldArtifacts \cup OddNames

----------------------------------------------------------------------------
(* State                                                                   *)

VARIABLES
    now,          \* the clock, datetime.now()
    keep_days,    \* ftp_config['keep_days']
    wp,           \* files of wp_directory: relative path -> data
    site_data,    \* files of backup_directory/site_data: path -> [data, run]
    database,     \* files of backup_directory/database: path -> [data, run]
    zips,         \* archives of backup_directory: name -> [entries, complete]
    remote,       \* names in the remote directory of the FTP server
    log,          \* lines of backup_log.txt, oldest first: <<message, name>>
    run,          \* number of invocations of the script started so far
    pc,           \* where the current invocation stands
    stage,        \* index in MainSeq of the function main is executing
    stages,       \* calls and returns of main's functions in this invocation
    error,        \* the step whose exception ended this invocation, or "none"
    ftp,          \* the FTP session of this invocation: none, open, closed
    calls,        \* FTP commands issued in this invocation: <<command, name>>
    zip_file,     \* zip_backup's zip_file (base name) in this invocation
    up_file,      \* upload_backup's zip_file (base name) in this invocation
    cutoff_date,  \* upload_backup's cutoff_date
    listing,      \* names of ftp.nlst() the purge loop has not visited yet
    dump_result   \* what subprocess.run did in this invocation, or "none"

vars == << now, keep_days, wp, site_data, database, zips, remote, log, run,
           pc, stage, stages, error, ftp, calls, zip_file, up_file,
           cutoff_date, listing, dump_result >>

NoName == <<>>
\* a directory without files
EmptyDir == [p \in {} |-> p]

\* no process is running: no locals, no session
NoProcess ==
    /\ pc = "idle"
    /\ stage = 0
    /\ stages = <<>>
    /\ error = "none"
    /\ ftp = "none"
    /\ calls = <<>>
    /\ zip_file = NoName
    /\ up_file = NoName
    /\ cutoff_date = 0
    /\ listing = {}
    /\ dump_result = "none"

\* a fresh installation: nothing has run, the backup directory and the
\* remote directory are empty
Init ==
    /\ now = StartTime
    /\ keep_days \in KeepDaysValues
    /\ wp = TreeA
    /\ site_data = EmptyDir
    /\ database = EmptyDir
    /\ zips = EmptyDir
    /\ remote = {}
    /\ log = <<>>
    /\ run = 0
    /\ NoProcess

\* an archive as an earlier invocation (numbered 0) wrote it from TreeA
OldArchive ==
    [ entries |-> { [arcname |-> p, file |-> [data |-> TreeA[p], run |-> 0]] :
                        p \in DOMAIN TreeA },
      complete |-> TRUE ]

\* the last invocation explored, started from what earlier invocations and
\* other users of the server may have left: no archive, yesterday's, or
\* those of the last two days in the backup directory, any names in the
\* remote directory
InitRun ==
    /\ now = StartTime
    /\ keep_days \in KeepDaysValues
    /\ wp = TreeA
    /\ site_data = EmptyDir
    /\ database = EmptyDir
    /\ zips \in { [f \in { ZipName(Strftime(MinusDays(StartTime, n))) :
                                  n \in 1..k } |-> OldArchive] : k \in 0..2 }
    /\ remote \in { R \in SUBSET RemoteNames : Cardinality(R) <= MaxRemote }
    /\ log = <<>>
    /\ run = MaxRuns - 1
    /\ NoProcess

----------------------------------------------------------------------------
(* Helpers of the actions                                                  *)

\* log_message(message): one more line at the end of the log file
LogMessage(l, message, name) == Append(l, <<message, name>>)

\* variant: main zips before it copies and dumps
MainSeq_ZipFirst ==
    << "delete_yesterdays_backup", "zip_backup", "backup_site", "upload_backup" >>

\* the functions main calls, in the order it calls them
MainSeq ==
    << "delete_yesterdays_backup", "backup_site", "zip_backup", "upload_backup" >>

\* the first step of each function
EntryPc(fn) ==
    CASE fn = "delete_yesterdays_backup" -> "delete"
      [] fn = "backup_site" -> "copy"
      [] fn = "zip_backup" -> "zip"
      [] fn = "upload_backup" -> "connect"

\* the current function returns: main calls the next one, or reaches its
\* last statement
Return ==
    /\ stage' = stage + 1
    /\ IF stage < Len(MainSeq)
       THEN /\ pc' = EntryPc(MainSeq[stage + 1])
            /\ stages' = stages \o << <<"return", MainSeq[stage]>>,
                                      <<"call", MainSeq[stage + 1]>> >>
       ELSE /\ pc' = "completed"
            /\ stages' = Append(stages, <<"return", MainSeq[stage]>>)

\* variant: main catches the exception of a function and goes on with the
\* next one
Raise_MainContinues(step) ==
    /\ error' = step
    /\ Return

\* an exception raised at a step: nothing in main or its functions catches
\* it, the process ends with a traceback and a non-zero status
Raise(step) ==
    /\ pc' = "exit1"
    /\ error' = step
    /\ stage' = stage
    /\ stages' = Append(stages, <<"raise", MainSeq[stage]>>)

\* variant: the dump step without its except clause
DumpHandlerCatches_Nothing(exc) == FALSE

\* the except clause of the dump step: which exceptions it catches
DumpHandlerCatches(exc) == exc = "CalledProcessError"

\* os.walk(join(backup_directory, dir)): join(root, file) of every file
Walk(dir, tree) == { dir \o p : p \in DOMAIN tree }

\* os.path.relpath(path, start) for a path under start
RelPath(path, start) == SubSeq(path, Len(start) + 1, Len(path))

\* variant: the entries are named by their path under backup_directory
ArchiveEntries_FullPath(dir, tree) ==
    { [arcname |-> f, file |-> tree[RelPath(f, dir)]] : f \in Walk(dir, tree) }

\* the entries zip_backup writes for one staging directory
ArchiveEntries(dir, tree) ==
    { [arcname |-> RelPath(f, dir), file |-> tree[RelPath(f, dir)]] :
          f \in Walk(dir, tree) }

\* shutil.copytree(src, dst, dirs_exist_ok=True) for the files in paths:
\* each is written over the destination's, other destination files stay
CopyTree(src, dst, paths, r) ==
    [ p \in DOMAIN dst \cup paths |->
          IF p \in paths THEN [data |-> src[p], run |-> r] ELSE dst[p] ]

\* variant: the local purge looks for the archive of two days ago
BackupToDelete_TwoDays(t) == ZipName(Strftime(MinusDays(t, 2)))

\* delete_yesterdays_backup: the name it looks for
BackupToDelete(t) == ZipName(Strftime(MinusDays(t, 1)))

\* variant: the purge loop spares the artifacts of one more day
PurgeDecision_GraceDay(filename, cutoff) ==
    IF StartsWith(filename, Prefix) /\ EndsWith(filename, Suffix)
    THEN LET file_date_str == Split(Split(filename, "_")[3], ".")[1]
             file_date == Strptime(file_date_str)
         IN  IF ~file_date.ok THEN "skip"
             ELSE IF file_date.dt < MinusDays(cutoff, 1) THEN "delete" ELSE "keep"
    ELSE "ignore"

\* the purge loop's decision for one name of the listing:
\* "ignore" (not an artifact name), "skip" (ValueError), "delete" or "keep"
PurgeDecision(filename, cutoff) ==
    IF StartsWith(filename, Prefix) /\ EndsWith(filename, Suffix)
    THEN LET file_date_str == Split(Split(filename, "_")[3], ".")[1]
             file_date == Strptime(file_date_str)
         IN  IF ~file_date.ok THEN "skip"
             ELSE IF file_date.dt < cutoff THEN "delete" ELSE "keep"
    ELSE "ignore"

\* variant: the guard tests keep_days for truth, so a negative value passes
PurgeEnabled_Truthy(k) == k # 0

\* the guard of the remote purge: if ftp_config['keep_days'] > 0
PurgeEnabled(k) == k > 0

\* the instants at which the clock is read next: the clock advances at any
\* time, and an advance between two reads is seen only by the later read
TickPoints == {"idle", "zip", "connect", "retention"}

----------------------------------------------------------------------------
(* The environment                                                         *)

\* time passes
Tick ==
    /\ pc \in TickPoints
    /\ pc = "idle" => run < MaxRuns
    /\ now < StartTime + MaxTicks
    /\ now' = now + 1
    /\ UNCHANGED << keep_days, wp, site_data, database, zips, remote, log,
                    run, pc, stage, stages, error, ftp, calls, zip_file,
                    up_file, cutoff_date, listing, dump_result >>

\* the site changes between two invocations (wp_directory is read by the
\* copy step only)
SourceChange ==
    /\ pc = "idle"
    /\ run < MaxRuns
    /\ wp' \in WpTrees \ {wp}
    /\ UNCHANGED << now, keep_days, site_data, database, zips, remote, log,
                    run, pc, stage, stages, error, ftp, calls, zip_file,
                    up_file, cutoff_date, listing, dump_result >>

----------------------------------------------------------------------------
(* main                                                                    *)

\* the scheduler starts the script: the banner line of __main__, then main's
\* first log line and its first call
StartRun ==
    /\ pc = "idle"
    /\ run < MaxRuns
    /\ run' = run + 1
    /\ log' = LogMessage(LogMessage(log, "--- Backup Script Run ---", NoName),
                         "Backup script initiated.", NoName)
    /\ stage' = 1
    /\ pc' = EntryPc(MainSeq[1])
    /\ stages' = << <<"call", MainSeq[1]>> >>
    /\ error' = "none"
    /\ ftp' = "none"
    /\ calls' = <<>>
    /\ zip_file' = NoName
    /\ up_file' = NoName
    /\ cutoff_date' = 0
    /\ listing' = {}
    /\ dump_result' = "none"
    /\ UNCHANGED << now, keep_days, wp, site_data, database, zips, remote >>

\* main's last statement, after upload_backup has returned
MainCompleted ==
    /\ pc = "completed"
    /\ log' = LogMessage(log, "Backup process completed.", NoName)
    /\ pc' = "exit0"
    /\ UNCHANGED << now, keep_days, wp, site_data, database, zips, remote,
                    run, stage, stages, error, ftp, calls, zip_file, up_file,
                    cutoff_date, listing, dump_result >>

\* the process ends: its locals and its socket are gone; the scheduler may
\* start the next one
Exit ==
    /\ pc \in {"exit0", "exit1"}
    /\ pc' = "idle"
    /\ stage' = 0
    /\ stages' = <<>>
    /\ error' = "none"
    /\ ftp' = "none"
    /\ calls' = <<>>
    /\ zip_file' = NoName
    /\ up_file' = NoName
    /\ cutoff_date' = 0
    /\ listing' = {}
    /\ dump_result' = "none"
    /\ UNCHANGED << now, keep_days, wp, site_data, database, zips, remote,
                    log, run >>

----------------------------------------------------------------------------
(* delete_yesterdays_backup                                                *)

DeleteYesterdaysBackup ==
    /\ pc = "delete"
    /\ LET backup_to_delete == BackupToDelete(now)
       IN  IF backup_to_delete \in DOMAIN zips
           THEN /\ zips' = [n \in DOMAIN zips \ {backup_to_delete} |-> zips[n]]
                /\ log' = LogMessage(log, "Deleted yesterday's backup file: ",
                                     backup_to_delete)
           ELSE /\ zips' = zips
                /\ log' = LogMessage(log,
                              "No backup found to delete for yesterday.", NoName)
    /\ Return
    /\ UNCHANGED << now, keep_days, wp, site_data, database, remote, run,
                    error, ftp, calls, zip_file, up_file, cutoff_date, listing, dump_result >>

----------------------------------------------------------------------------
(* backup_site                                                             *)

\* makedirs and copytree: all files are copied, or the copy of some file
\* fails, the others are copied and shutil.Error is raised
BackupSiteCopy ==
    /\ pc = "copy"
    /\ \/ /\ site_data' = CopyTree(wp, site_data, DOMAIN wp, run)
          /\ log' = LogMessage(LogMessage(log, "Starting backup process.", NoName),
                               "WordPress files copied successfully.", NoName)
          /\ pc' = "dump"
          /\ UNCHANGED << stage, stages, error >>
       \/ /\ \E done \in SUBSET DOMAIN wp :
                /\ done # DOMAIN wp
                /\ site_data' = CopyTree(wp, site_data, done, run)
          /\ log' = LogMessage(log, "Starting backup process.", NoName)
          /\ Raise("copy")
    /\ UNCHANGED << now, keep_days, wp, database, zips, remote, run, ftp,
                    calls, zip_file, up_file, cutoff_date, listing, dump_result >>

\* subprocess.run(dump_command, check=True) inside try/except: mysqldump
\* succeeds, exits non-zero (CalledProcessError), or cannot be started
\* (OSError)
BackupSiteDump ==
    /\ pc = "dump"
    /\ \/ /\ dump_result' = "ok"
          /\ database' = (DumpFile :> [data |-> "dump", run |-> run]) @@ database
          /\ log' = LogMessage(log, "Database SQL dump completed successfully.",
                               NoName)
          /\ Return
          /\ error' = error
       \/ \E exc \in {"CalledProcessError", "OSError"} :
            /\ dump_result' = exc
            /\ \/ database' = database
               \/ /\ exc = "CalledProcessError"
                  /\ database' =
                        (DumpFile :> [data |-> "partial", run |-> run]) @@ database
            /\ IF DumpHandlerCatches(exc)
               THEN /\ log' = LogMessage(log, "Error during database dump: ",
                                         NoName)
                    /\ Return
                    /\ error' = error
               ELSE /\ log' = log
                    /\ Raise("dump")
    /\ UNCHANGED << now, keep_days, wp, site_data, zips, remote, run, ftp,
                    calls, zip_file, up_file, cutoff_date, listing >>

----------------------------------------------------------------------------
(* zip_backup                                                              *)

\* the archive is opened for writing (created or truncated), the files of
\* both staging directories are written, the archive is closed; a failure
\* leaves no file (the open failed) or the entries written so far (the
\* site_data directory is walked first)
ZipBackup ==
    /\ pc = "zip"
    /\ LET name == ZipName(Strftime(now))
           site == ArchiveEntries(SiteDataDir, site_data)
           all  == site \cup ArchiveEntries(DatabaseDir, database)
       IN  /\ zip_file' = name
           /\ \/ /\ zips' = (name :> [entries |-> all, complete |-> TRUE]) @@ zips
                 /\ log' = LogMessage(log, "Backup zipped successfully: ", name)
                 /\ Return
                 /\ error' = error
              \/ /\ \/ zips' = zips
                    \/ \E part \in SUBSET all :
                         /\ part # all
                         /\ part \subseteq site \/ site \subseteq part
                         /\ zips' = (name :> [entries |-> part,
                                              complete |-> FALSE]) @@ zips
                 /\ log' = log
                 /\ Raise("zip")
    /\ UNCHANGED << now, keep_days, wp, site_data, database, remote, run, ftp,
                    calls, up_file, cutoff_date, listing, dump_result >>

----------------------------------------------------------------------------
(* upload_backup                                                           *)

\* one more FTP command issued in this invocation
Issue(command, name) == calls' = Append(calls, <<command, name>>)

\* zip_file is derived from the clock, then FTP(host) connects
FtpConnect ==
    /\ pc = "connect"
    /\ up_file' = ZipName(Strftime(now))
    /\ Issue("CONNECT", NoName)
    /\ \/ /\ ftp' = "open"
          /\ pc' = "login"
          /\ UNCHANGED << stage, stages, error >>
       \/ /\ ftp' = ftp
          /\ Raise("connect")
    /\ UNCHANGED << now, keep_days, wp, site_data, database, zips, remote,
                    log, run, zip_file, cutoff_date, listing, dump_result >>

FtpLogin ==
    /\ pc = "login"
    /\ Issue("USER", NoName)
    /\ \/ /\ pc' = "cwd"
          /\ UNCHANGED << stage, stages, error >>
       \/ Raise("login")
    /\ UNCHANGED << now, keep_days, wp, site_data, database, zips, remote,
                    log, run, ftp, zip_file, up_file, cutoff_date, listing, dump_result >>

FtpCwd ==
    /\ pc = "cwd"
    /\ Issue("CWD", NoName)
    /\ \/ /\ pc' = "stor"
          /\ UNCHANGED << stage, stages, error >>
       \/ Raise("cwd")
    /\ UNCHANGED << now, keep_days, wp, site_data, database, zips, remote,
                    log, run, ftp, zip_file, up_file, cutoff_date, listing, dump_result >>

\* variant: a failed transfer is passed over and upload_backup goes on
FtpStor_FailureIgnored ==
    /\ pc = "stor"
    /\ IF up_file \notin DOMAIN zips
       THEN /\ Raise("open")
            /\ UNCHANGED << remote, log, calls >>
       ELSE /\ Issue("STOR", up_file)
            /\ \/ /\ remote' = remote \cup {up_file}
                  /\ log' = LogMessage(log, "Backup uploaded to FTP server: ",
                                       up_file)
               \/ /\ remote' \in {remote, remote \cup {up_file}}
                  /\ log' = log
            /\ pc' = "retention"
            /\ UNCHANGED << stage, stages, error >>
    /\ UNCHANGED << now, keep_days, wp, site_data, database, zips, run, ftp,
                    zip_file, up_file, cutoff_date, listing, dump_result >>

\* open(zip_file, 'rb') and storbinary: the file is missing, or it is stored
\* under its base name, or the transfer fails and may leave a part of it
FtpStor ==
    /\ pc = "stor"
    /\ IF up_file \notin DOMAIN zips
       THEN /\ Raise("open")
            /\ UNCHANGED << remote, log, calls >>
       ELSE /\ Issue("STOR", up_file)
            /\ \/ /\ remote' = remote \cup {up_file}
                  /\ log' = LogMessage(log, "Backup uploaded to FTP server: ",
                                       up_file)
                  /\ pc' = "retention"
                  /\ UNCHANGED << stage, stages, error >>
               \/ /\ remote' \in {remote, remote \cup {up_file}}
                  /\ log' = log
                  /\ Raise("stor")
    /\ UNCHANGED << now, keep_days, wp, site_data, database, zips, run, ftp,
                    zip_file, up_file, cutoff_date, listing, dump_result >>

\* the guard on keep_days, the cutoff and the listing the loop iterates
Retention ==
    /\ pc = "retention"
    /\ IF PurgeEnabled(keep_days)
       THEN /\ cutoff_date' = MinusDays(now, keep_days)
            /\ Issue("NLST", NoName)
            /\ \/ /\ listing' = remote
                  /\ pc' = IF remote = {} THEN "quit" ELSE "purge"
                  /\ UNCHANGED << stage, stages, error >>
               \/ /\ listing' = listing
                  /\ Raise("nlst")
       ELSE /\ pc' = "quit"
            /\ UNCHANGED << cutoff_date, calls, listing, stage, stages, error >>
    /\ UNCHANGED << now, keep_days, wp, site_data, database, zips, remote,
                    log, run, ftp, zip_file, up_file, dump_result >>

\* one iteration of the loop over the listing
PurgeStep ==
    /\ pc = "purge"
    /\ \E filename \in listing :
         LET decision == PurgeDecision(filename, cutoff_date)
             rest == listing \ {filename}
             next == IF rest = {} THEN "quit" ELSE "purge"
         IN  /\ listing' = rest
             /\ CASE decision = "delete" ->
                        /\ Issue("DELE", filename)
                        /\ \/ /\ remote' = remote \ {filename}
                              /\ log' = LogMessage(log,
                                            "Deleted old backup from FTP: ", filename)
                              /\ pc' = next
                              /\ UNCHANGED << stage, stages, error >>
                           \/ /\ Raise("delete")
                              /\ UNCHANGED << remote, log >>
                  [] decision = "skip" ->
                        /\ log' = LogMessage(log,
                                      "Skipped FTP file with invalid date format: ",
                                      filename)
                        /\ pc' = next
                        /\ UNCHANGED << remote, calls, stage, stages, error >>
                  [] OTHER ->
                        /\ pc' = next
                        /\ UNCHANGED << remote, log, calls, stage, stages, error >>
    /\ UNCHANGED << now, keep_days, wp, site_data, database, zips, run, ftp,
                    zip_file, up_file, cutoff_date, dump_result >>

\* ftp.quit(): QUIT is sent and the connection closed, unless QUIT fails
FtpQuit ==
    /\ pc = "quit"
    /\ Issue("QUIT", NoName)
    /\ \/ /\ ftp' = "closed"
          /\ Return
          /\ error' = error
       \/ /\ ftp' = ftp
          /\ Raise("quit")
    /\ UNCHANGED << now, keep_days, wp, site_data, database, zips, remote,
                    log, run, zip_file, up_file, cutoff_date, listing, dump_result >>

----------------------------------------------------------------------------
(* Specification                                                           *)

Next ==
    \/ Tick
    \/ SourceChange
    \/ StartRun
    \/ DeleteYesterdaysBackup
    \/ BackupSiteCopy
    \/ BackupSiteDump
    \/ ZipBackup
    \/ FtpConnect
    \/ FtpLogin
    \/ FtpCwd
    \/ FtpStor
    \/ Retention
    \/ PurgeStep
    \/ FtpQuit
    \/ MainCompleted
    \/ Exit

\* every history of MaxRuns invocations of a fresh installation
Spec == Init /\ [][Next]_vars

\* one invocation, whatever earlier invocations left
SpecRun == InitRun /\ [][Next]_vars

TypeOK ==
    /\ pc \in {"idle", "delete", "copy", "dump", "zip", "connect", "login",
               "cwd", "stor", "retention", "purge", "quit", "completed",
               "exit0", "exit1"}
    /\ ftp \in {"none", "open", "closed"}
    /\ run \in 0..MaxRuns
    /\ now \in StartTime..(StartTime + MaxTicks)

----------------------------------------------------------------------------
(* Vocabulary of the properties                                            *)

\* the index of the last banner line of the log at or before line i
RECURSIVE LastBanner(_)
LastBanner(i) ==
    IF i = 0 THEN 1
    ELSE IF log[i][1] = "--- Backup Script Run ---" THEN i
    ELSE LastBanner(i - 1)

\* the current invocation has written a line with this message to the log
Logged(message) ==
    \E i \in LastBanner(Len(log))..Len(log) : log[i][1] = message

IsPrefix(a, b) == Len(a) <= Len(b) /\ SubSeq(b, 1, Len(a)) = a

\* the FTP commands of a kind issued in this invocation, and their names
Issued(command) == { i \in 1..Len(calls) : calls[i][1] = command }
Deleted == { calls[i][2] : i \in Issued("DELE") }

Called(fn) == \E i \in 1..Len(stages) : stages[i] = <<"call", fn>>
Returned(fn) == \E i \in 1..Len(stages) : stages[i] = <<"return", fn>>

\* a name of the form wordpress_backup_<YYYYMMDD>.zip with eight digits that
\* form a date of the calendar
ArtifactDigits(f) == SubSeq(f, Len(Prefix) + 1, Len(f) - Len(Suffix))
ArtifactYear(f) == ToInt(SubSeq(ArtifactDigits(f), 1, 4))
ArtifactMonth(f) == ToInt(SubSeq(ArtifactDigits(f), 5, 6))
ArtifactDom(f) == ToInt(SubSeq(ArtifactDigits(f), 7, 8))
WellFormed(f) ==
    /\ Len(f) = Len(Prefix) + 8 + Len(Suffix)
    /\ SubSeq(f, 1, Len(Prefix)) = Prefix
    /\ SubSeq(f, Len(f) - Len(Suffix) + 1, Len(f)) = Suffix
    /\ \A i \in 1..8 : IsDigit(ArtifactDigits(f)[i])
    /\ ArtifactYear(f) >= 1
    /\ ArtifactMonth(f) \in 1..12
    /\ ArtifactDom(f) \in 1..DaysInMonth(ArtifactYear(f), ArtifactMonth(f))

\* the calendar day in the name of a well-formed artifact
ArtifactDay(f) == ToOrdinal(ArtifactYear(f), ArtifactMonth(f), ArtifactDom(f))

\* today, as a calendar day
Today == DateOf(now)

\* the remote purge of this invocation has visited the whole listing
PurgeFinished ==
    pc \in {"quit", "completed", "exit0"} /\ Issued("NLST") # {}

----------------------------------------------------------------------------
(* C1 -- remote purge, the cutoff date                                     *)

\* C1 (as claimed): for keep_days = k > 0, the remote purge deletes exactly
\* the well-formed artifacts of the listing dated before today - k and keeps
\* the others, the one dated today - k included, at any time of day.
\* The code compares midnight of the artifact's date with now - k days, so
\* later than 00:00:00 the artifact dated today - k is deleted too.
C1_PurgeDeletesExactlyOlderThanCutoff ==
    (PurgeFinished /\ keep_days > 0) =>
        \A f \in remote \cup Deleted :
            WellFormed(f) =>
                (f \in Deleted <=> ArtifactDay(f) < Today - keep_days)

----------------------------------------------------------------------------
(* C2 -- remote purge, malformed names                                     *)

\* C2 (as claimed): every name the remote purge deletes has exactly the form
\* wordpress_backup_<8 digits of a calendar date>.zip.
\* The code takes the text between the second '_' and the next '.', and
\* strptime accepts one-digit months and days, so names with more segments
\* or a short date are deleted.
C2_PurgeDeletesOnlyWellFormedNames ==
    \A f \in Deleted : WellFormed(f)

----------------------------------------------------------------------------
(* C3 -- the FTP session is closed on every exit path                      *)

\* C3 (as claimed): once the session is open, it is closed before the run
\* ends, on success and on failure.
\* The code calls ftp.quit() on the success path only.
C3_SessionClosedOnEveryExit ==
    pc \in {"exit0", "exit1"} => ftp # "open"

----------------------------------------------------------------------------
(* C4 -- a failed dump is not fatal                                        *)

ShipErrors == {"connect", "login", "cwd", "open", "stor", "nlst", "delete", "quit"}

----------------------------------------------------------------------------
(* C5 -- a fatal error aborts the rest of the run                          *)

\* what stands at the end of a failed run
C5_Aborted ==
    /\ error # "none" => pc \in {"exit1", "idle"}
    /\ pc = "exit1" => error # "none"
    /\ error = "copy" =>
          /\ ~Called("zip_backup") /\ ~Called("upload_backup")
          /\ zip_file = NoName
          /\ calls = <<>>
    /\ error = "zip" =>
          /\ ~Called("upload_backup")
          /\ calls = <<>>
    /\ error \in {"connect", "login", "cwd", "open", "stor"} =>
          /\ Issued("DELE") = {} /\ Issued("NLST") = {}
          /\ Cardinality(Issued("STOR")) <= 1
          /\ Cardinality(Issued("CONNECT")) = 1

\* C5: a copy, pack or transfer failure ends the run with a failure status
\* at once: after a copy failure zip_backup and upload_backup are not called,
\* no archive is written and no FTP command is issued; after a pack failure
\* no FTP command is issued; after a transfer failure nothing is listed or
\* deleted and the transfer is not tried again; and no step of the run
\* removes or changes a line of the log (a step that fails included).
C5_FatalErrorAbortsRun ==
    /\ []C5_Aborted
    /\ [][IsPrefix(log, log') /\ (error # "none" => remote' = remote /\ zips' = zips)]_vars

C5_Witness ==
    /\ pc = "exit1"
    /\ error = "stor"
    /\ Logged("Backup zipped successfully: ")
    /\ \E f \in remote : PurgeDecision(f, MinusDays(now, keep_days)) = "delete"
    /\ keep_days > 0

----------------------------------------------------------------------------
(* C6 -- the order of the stages                                           *)

\* the calls and returns of a complete run, in order: purge-local, snapshot,
\* pack, ship
C6_Order ==
    << <<"call", "delete_yesterdays_backup">>, <<"return", "delete_yesterdays_backup">>,
       <<"call", "backup_site">>, <<"return", "backup_site">>,
       <<"call", "zip_backup">>, <<"return", "zip_backup">>,
       <<"call", "upload_backup">>, <<"return", "upload_backup">> >>

\* the files the current run has put into a staging directory
WrittenThisRun(tree) == { p \in DOMAIN tree : tree[p].run = run }

\* C6: at every moment of a run, the calls and returns so far are an initial
\* part of purge-local, snapshot, pack, ship (each returned before the next is
\* called, none twice), possibly ended by the exception of the stage that
\* was running; the step in progress belongs to the stage called last; within
\* snapshot the copy is complete before the dump writes; the archive is
\* written only after snapshot has returned; FTP commands are issued only
\* after pack has returned, in the order connect, login, cwd, store, list,
\* deletes, quit.
C6_StagesInOrder ==
    pc # "idle" =>
    /\ \/ IsPrefix(stages, C6_Order)
       \/ /\ Len(stages) >= 2
          /\ stages[Len(stages) - 1][1] = "call"
          /\ stages[Len(stages)] = <<"raise", stages[Len(stages) - 1][2]>>
          /\ IsPrefix(SubSeq(stages, 1, Len(stages) - 1), C6_Order)
    /\ pc = "delete" => stages[Len(stages)] = <<"call", "delete_yesterdays_backup">>
    /\ pc \in {"copy", "dump"} => stages[Len(stages)] = <<"call", "backup_site">>
    /\ pc = "zip" => stages[Len(stages)] = <<"call", "zip_backup">>
    /\ pc \in {"connect", "login", "cwd", "stor", "retention", "purge", "quit"} =>
          stages[Len(stages)] = <<"call", "upload_backup">>
    /\ pc \in {"completed", "exit0"} => stages = C6_Order
    /\ WrittenThisRun(site_data) # {} => Returned("delete_yesterdays_backup")
    /\ WrittenThisRun(database) # {} =>
          /\ Logged("WordPress files copied successfully.")
          /\ WrittenThisRun(site_data) = DOMAIN wp
    /\ zip_file # NoName => Returned("backup_site")
    /\ calls # <<>> => Returned("zip_backup")
    /\ \A i \in 1..Len(calls) :
          /\ i = 1 <=> calls[i][1] = "CONNECT"
          /\ i = 2 <=> calls[i][1] = "USER"
          /\ i = 3 <=> calls[i][1] = "CWD"
          /\ i = 4 <=> calls[i][1] = "STOR"
          /\ calls[i][1] = "NLST" => i = 5
          /\ calls[i][1] = "DELE" => i > 5 /\ calls[5][1] = "NLST"
          /\ calls[i][1] = "QUIT" => i = Len(calls) /\ i >= 5

C6_Witness ==
    /\ pc = "exit0"
    /\ stages = C6_Order
    /\ Issued("DELE") # {}

----------------------------------------------------------------------------
(* C7 -- keep_days <= 0 disables the remote purge                          *)

\* C7: with keep_days <= 0 no invocation ever issues a list or a delete
\* command, a successful run has stored its archive, and no step changes the
\* remote directory other than by adding the archive being uploaded.
C7_NoPurgeWhenKeepDaysNotPositive ==
    /\ [](keep_days <= 0 =>
            /\ Issued("NLST") = {}
            /\ Issued("DELE") = {}
            /\ pc = "exit0" => (Issued("STOR") # {} /\ up_file \in remote))
    /\ [][keep_days <= 0 =>
            (remote \subseteq remote' /\ remote' \ remote \subseteq {up_file})]_vars

C7_Witness ==
    /\ keep_days <= 0
    /\ pc = "exit0"
    /\ up_file \in remote
    /\ \E f \in remote :
          /\ f # up_file
          /\ WellFormed(f)
          /\ ArtifactDay(f) < Today - 1

----------------------------------------------------------------------------
(* C8 -- the local purge removes yesterday's archive and nothing else      *)

\* the archives of the backup directory named for the day before today
YesterdaysArtifacts ==
    { n \in DOMAIN zips : WellFormed(n) /\ ArtifactDay(n) = Today - 1 }

\* C8: the step of the local purge removes the archive named for yesterday
\* if there is one, removes no other archive, changes no archive, staging
\* file, remote file or earlier log line; when there is no such archive it
\* removes nothing, logs that nothing was deleted and raises no error.
C8_LocalPurgeRemovesOnlyYesterdays ==
    [][pc = "delete" =>
        /\ DOMAIN zips \ DOMAIN zips' = YesterdaysArtifacts
        /\ Cardinality(DOMAIN zips \ DOMAIN zips') <= 1
        /\ DOMAIN zips' \subseteq DOMAIN zips
        /\ \A n \in DOMAIN zips' : zips'[n] = zips[n]
        /\ site_data' = site_data
        /\ database' = database
        /\ remote' = remote
        /\ IsPrefix(log, log')
        /\ YesterdaysArtifacts = {} =>
              /\ zips' = zips
              /\ log' = Append(log, <<"No backup found to delete for yesterday.",
                                      NoName>>)
              /\ error' = "none"
              /\ pc' # "exit1"
      ]_vars

\* the local purge has just removed yesterday's archive and left another
C8_Witness ==
    /\ pc = "copy"
    /\ log[Len(log)][1] = "Deleted yesterday's backup file: "
    /\ zips # EmptyDir
    /\ \A n \in DOMAIN zips : WellFormed(n) /\ ArtifactDay(n) # Today - 1

----------------------------------------------------------------------------
(* C9 -- local retention keeps only the current backup                     *)

\* C9 (as claimed): after a successfully completed run, whatever happened
\* before, the backup directory holds exactly one archive, the one this run
\* wrote.
\* The code removes only the archive named for the day before the purge
\* step: an archive older than that (a day without a run), or one of the
\* same day when the date changes before the archive is written, stays.
C9_OnlyCurrentBackupKept ==
    pc = "exit0" => DOMAIN zips = {zip_file}

----------------------------------------------------------------------------
(* C10 -- the copy step mirrors the site                                   *)

\* the staging site directory holds the files of wp_directory, all of them
\* and no others, with the same contents
Mirror ==
    /\ DOMAIN site_data = DOMAIN wp
    /\ \A p \in DOMAIN wp : site_data[p].data = wp[p]

\* C10 (as claimed): whenever the copy step has succeeded, whatever the
\* staging directory held before, the staging site directory is an exact
\* mirror of the site.
\* copytree(dirs_exist_ok=True) writes over existing files and removes
\* none: a file deleted from the site since an earlier run stays in staging.
C10_SnapshotMirrorsSource ==
    pc = "dump" => Mirror

----------------------------------------------------------------------------
(* C11 -- the archive is created atomically                                *)

\* the entries of a complete archive of the staging directories as they are
AllStaged ==
    ArchiveEntries(SiteDataDir, site_data) \cup ArchiveEntries(DatabaseDir, database)

\* C11 (as claimed): once zip_backup has returned or failed, either the
\* archive of all files of both staging directories stands at
\* wordpress_backup_<date>.zip, or the call failed and no file stands there.
\* The code opens the archive at its final path and writes into it: a
\* failure while a file is written leaves the entries written so far there.
C11_ArchiveCreationAtomic ==
    zip_file # NoName =>
        IF error = "zip"
        THEN zip_file \notin DOMAIN zips
        ELSE /\ zip_file \in DOMAIN zips
             /\ zips[zip_file].complete
             /\ zips[zip_file].entries = AllStaged

----------------------------------------------------------------------------
(* C12 -- the entry names of the archive                                   *)

\* the entry names of the archive zip_backup wrote in this invocation
EntryNames == { e.arcname : e \in zips[zip_file].entries }

\* C12: once zip_backup has returned, the entry names of its archive are
\* the paths of the files of site_data relative to site_data together with
\* the paths of the files of database relative to database: no other name,
\* and no name that starts with a staging directory.
C12_EntryNamesAreRelativePaths ==
    Returned("zip_backup") =>
        /\ zip_file \in DOMAIN zips
        /\ EntryNames = DOMAIN site_data \cup DOMAIN database
        /\ \A n \in EntryNames :
              ~StartsWith(n, SiteDataDir) /\ ~StartsWith(n, DatabaseDir)

\* the archive of a/b.txt, index.php and the dump
C12_Witness ==
    /\ Returned("zip_backup")
    /\ EntryNames = {<<"a", "b.txt">>, <<"index.php">>, DumpFile}

----------------------------------------------------------------------------
(* C13 -- the remote purge comes after the transfer                        *)

\* the command issued by the step being taken, "" if it issues none
IssuedByStep ==
    IF Len(calls') > Len(calls) THEN calls'[Len(calls')][1] ELSE ""

\* C13: every list and delete command of a run comes after the store of the
\* run's archive, which has completed (its log line is written and the
\* archive is in the remote directory), in the one session of the run, which
\* is open and has not been quit; the listing the loop works on is the
\* remote directory as it is after the store, and every delete is for a name
\* of that listing.
C13_PurgeOnlyAfterTransfer ==
    /\ [](\A i \in Issued("NLST") \cup Issued("DELE") :
            /\ \E j \in 1..(i - 1) : calls[j] = <<"STOR", up_file>>
            /\ \A j \in 1..(i - 1) : calls[j][1] # "QUIT"
            /\ Cardinality(Issued("CONNECT")) = 1
            /\ Logged("Backup uploaded to FTP server: "))
    /\ [][(IssuedByStep # "" /\ IssuedByStep \in {"NLST", "DELE"}) =>
            /\ ftp = "open" /\ ftp' = "open"
            /\ Logged("Backup uploaded to FTP server: ")
            /\ (IssuedByStep = "NLST" /\ pc' # "exit1") =>
                  (up_file \in remote /\ listing' = remote)
            /\ IssuedByStep = "DELE" =>
                  calls'[Len(calls')][2] \in listing
         ]_vars

C13_Witness ==
    /\ ftp = "closed"
    /\ Issued("DELE") # {}
    /\ up_file \in remote
    /\ up_file \notin Deleted

----------------------------------------------------------------------------
(* C14 -- the archive uploaded is the archive packed                       *)

\* C14 (as claimed): the archive upload_backup opens and stores is the one
\* zip_backup of the same run wrote, also when the date changes in between,
\* and a run that has packed does not fail to find its archive.
\* The code derives the name from the clock again in upload_backup: when the
\* date has changed since zip_backup, the name is another one.
C14_ShipUploadsPackedArchive ==
    up_file # NoName => (up_file = zip_file /\ error # "open")

----------------------------------------------------------------------------
(* C15 -- a local backup stays once there was one                          *)

\* some invocation has completed
SomeRunCompleted ==
    \E i \in 1..Len(log) : log[i][1] = "Backup process completed."

\* C15 (as claimed, for the moments at which no run is in progress): once a
\* run has completed, the backup directory holds a complete archive at the
\* end of every later run, a failed one included.
\* The code removes yesterday's archive first and writes the new one last:
\* a run of the next day that fails in between leaves no archive.
C15_LocalBackupNeverAbsent ==
    (SomeRunCompleted /\ pc \in {"exit0", "exit1", "idle"}) =>
        \E n \in DOMAIN zips : zips[n].complete

----------------------------------------------------------------------------
(* C16 -- the remote purge spares the archive just uploaded                *)

\* C16 (as claimed): with keep_days >= 1 the remote purge never deletes the
\* archive stored in the same run, and after a completed run the archive is
\* in the remote directory.
\* The code names the archive by the date at the start of upload_backup and
\* computes the cutoff from the clock after the transfer: with keep_days = 1
\* and a date change in between, the archive is older than the cutoff.
C16_PurgeKeepsSameRunUpload ==
    keep_days >= 1 =>
        /\ up_file \notin Deleted
        /\ pc = "exit0" => up_file \in remote

----------------------------------------------------------------------------
(* C17 -- nothing older than the retention window stays                    *)

\* C17: when a run with keep_days = k > 0 has completed, whatever the remote
\* directory held before, it holds no well-formed artifact dated earlier
\* than today - k (today being the day of the clock read of the purge, the
\* last one of the run).
C17_NoArtifactOlderThanWindow ==
    (pc = "exit0" /\ keep_days > 0) =>
        \A f \in remote :
            WellFormed(f) => ArtifactDay(f) >= Today - keep_days

\* a completed run at 00:00:00 that found an artifact dated the day before
\* today - k and deleted it
C17_Witness ==
    /\ pc = "exit0"
    /\ keep_days > 0
    /\ now = Midnight(FromOrdinal(Today)[1], FromOrdinal(Today)[2],
                      FromOrdinal(Today)[3])
    /\ \E f \in Deleted :
          WellFormed(f) /\ ArtifactDay(f) = Today - keep_days - 1

----------------------------------------------------------------------------
(* C18 -- the dump in the archive is the dump of the run                   *)

\* C18 (as claimed): the database_backup.sql in the archive of a run was
\* written by the dump step of that run.
\* The code never empties the database staging directory: when mysqldump
\* fails without writing, the file of an earlier run is archived.
C18_ArchivedDumpIsFromThisRun ==
    Returned("zip_backup") =>
        \A e \in zips[zip_file].entries :
            e.arcname = DumpFile => e.file.run = run

====
